---- MODULE Spec2Model ----
(***************************************************************************)
(* Model of the four-colour map game in src/src/App.jsx: the FourColorGame *)
(* component's state and handlers, and the pure map functions they call.   *)
(*                                                                         *)
(* Numbers.  Pointer samples and polygon vertices lie on the integer       *)
(* lattice of map units.  Every length the source computes with            *)
(* Math.hypot, and every area, is carried in fixed point with one decimal  *)
(* digit (tenths of a unit, rounded down), so the source's thresholds      *)
(* read 8 -> 80, 3 -> 30, 10.8 -> 108, 350 -> 3500.                        *)
(*                                                                         *)
(* Ids.  A region id `region-<n>` / `custom-<n>` is modelled by n; the     *)
(* source compares ids as strings, so IdLess compares decimal digits       *)
(* lexicographically.                                                      *)
(***************************************************************************)
EXTENDS Integers, Sequences, FiniteSets, TLC

VARIABLES
    \* ---- FourColorGame state (useState hooks) ----
    mode, regions, adjacency, selectedId, conflicts, message, history,
    redoStack, customRegions, customEditing, drawingPoints, drawingMessage,
    previewPolygon, previewMessage, isDrawing,
    \* ---- one call of a pure function: its arguments and its result ----
    call, ret,
    \* ---- createPoints, one loop iteration per step ----
    cpCount, cpPoints, cpAttempts, cpPc

gameVars == <<mode, regions, adjacency, selectedId, conflicts, message, history,
              redoStack, customRegions, customEditing, drawingPoints,
              drawingMessage, previewPolygon, previewMessage, isDrawing>>
fnVars == <<call, ret>>
cpVars == <<cpCount, cpPoints, cpAttempts, cpPc>>
vars == <<gameVars, fnVars, cpVars>>

----------------------------------------------------------------------------
\* Program constants

COLORS == 4
MAP_WIDTH == 900
MAP_HEIGHT == 620
\* 20 map units, in tenths
CLOSE_THRESHOLD == 200
\* 350 square units, in tenths
MIN_POLYGON_AREA == 3500
TARGET_SIMPLIFY_POINTS == 18
\* JavaScript null (an uncoloured region, a missing polygon's colour)
Null == -1

----------------------------------------------------------------------------
\* Arithmetic helpers

Min(a, b) == IF a < b THEN a ELSE b
Max(a, b) == IF a > b THEN a ELSE b
Abs(a) == IF a < 0 THEN -a ELSE a

RECURSIVE SqrtIter(_, _, _)
SqrtIter(n, lo, hi) ==
    IF lo >= hi THEN lo
    ELSE LET mid == (lo + hi + 1) \div 2
         IN  IF mid * mid <= n THEN SqrtIter(n, mid, hi)
                               ELSE SqrtIter(n, lo, mid - 1)

\* floor of the square root
Sqrt(n) == SqrtIter(n, 0, IF n < 1000000 THEN Min(n, 1000) ELSE 46340)

\* Math.hypot of two lattice differences, in tenths
hypot(dx, dy) == Sqrt(100 * (dx * dx + dy * dy))

\* Math.hypot of two differences given in tenths, in tenths
hypotTenths(dx, dy) == Sqrt(dx * dx + dy * dy)

Pt(px, py) == [x |-> px, y |-> py]

RECURSIVE SetToSeq(_)
SetToSeq(S) ==
    IF S = {} THEN <<>>
    ELSE LET e == CHOOSE e \in S : TRUE IN <<e>> \o SetToSeq(S \ {e})

Range(s) == {s[i] : i \in DOMAIN s}

RECURSIVE Digits(_)
Digits(n) == IF n < 10 THEN <<n>> ELSE Append(Digits(n \div 10), n % 10)

RECURSIVE LexLess(_, _)
LexLess(s, t) ==
    IF t = <<>> THEN FALSE
    ELSE IF s = <<>> THEN TRUE
    ELSE IF Head(s) # Head(t) THEN Head(s) < Head(t)
    ELSE LexLess(Tail(s), Tail(t))

\* regionId < neighborId on the id strings
IdLess(a, b) == LexLess(Digits(a), Digits(b))

----------------------------------------------------------------------------
\* Geometry kernel

distancePoints(a, b) == hypot(a.x - b.x, a.y - b.y)

\* distance from point to the segment lineStart-lineEnd (the source clamps the
\* projection parameter to the segment), in tenths
pointLineDistance(point, lineStart, lineEnd) ==
    LET A == point.x - lineStart.x
        B == point.y - lineStart.y
        C == lineEnd.x - lineStart.x
        D == lineEnd.y - lineStart.y
        dot == A * C + B * D
        lenSq == C * C + D * D
    IN  IF lenSq = 0 \/ dot < 0 THEN hypot(A, B)
        ELSE IF dot > lenSq THEN hypot(point.x - lineEnd.x, point.y - lineEnd.y)
        ELSE LET xx == 10 * lineStart.x + (10 * dot * C) \div lenSq
                 yy == 10 * lineStart.y + (10 * dot * D) \div lenSq
             IN  hypotTenths(10 * point.x - xx, 10 * point.y - yy)

segmentOverlapLength(a1, a2, b1, b2) ==
    LET v1x == a2.x - a1.x
        v1y == a2.y - a1.y
        v2x == b2.x - b1.x
        v2y == b2.y - b1.y
        len1 == hypot(v1x, v1y)
        len2 == hypot(v2x, v2y)
        crossAbs == Abs(v1x * v2y - v1y * v2x)
    IN  IF len1 < 10 \/ len2 < 10 THEN 0
        \* cross / (len1 * len2) > 0.1
        ELSE IF 1000 * crossAbs > len1 * len2 THEN 0
        ELSE IF pointLineDistance(b1, a1, a2) > 30 THEN 0
        ELSE LET proj(p) == (100 * (p.x * v1x + p.y * v1y)) \div len1
                 minA == Min(proj(a1), proj(a2))
                 maxA == Max(proj(a1), proj(a2))
                 minB == Min(proj(b1), proj(b2))
                 maxB == Max(proj(b1), proj(b2))
                 overlap == Min(maxA, maxB) - Max(minA, minB)
             IN  IF overlap > 0 THEN overlap ELSE 0

\* the double loop of sharedEdgeLength from the k-th pair of edges on
RECURSIVE sharedEdgeLengthFrom(_, _, _, _)
sharedEdgeLengthFrom(polyA, polyB, k, total) ==
    IF k >= Len(polyA) * Len(polyB) THEN total
    ELSE LET i == k \div Len(polyB)
             j == k % Len(polyB)
             a1 == polyA[i + 1]
             a2 == polyA[((i + 1) % Len(polyA)) + 1]
             b1 == polyB[j + 1]
             b2 == polyB[((j + 1) % Len(polyB)) + 1]
             next == total + segmentOverlapLength(a1, a2, b1, b2)
         IN  IF next > 80 THEN next
             ELSE sharedEdgeLengthFrom(polyA, polyB, k + 1, next)

sharedEdgeLength(polyA, polyB) == sharedEdgeLengthFrom(polyA, polyB, 0, 0)

\* the shoelace sum from the i-th vertex on
RECURSIVE shoelaceFrom(_, _)
shoelaceFrom(points, i) ==
    IF i > Len(points) THEN 0
    ELSE LET p1 == points[i]
             p2 == points[(i % Len(points)) + 1]
         IN  (p1.x * p2.y - p2.x * p1.y) + shoelaceFrom(points, i + 1)

\* area / 2 of the source, in tenths of a square unit
polygonArea(points) == 5 * shoelaceFrom(points, 1)

clamp(value, lo, hi) == Min(Max(value, lo), hi)

normalizePolygon(polygon) ==
    IF Len(polygon) > 1 /\ polygon[1] = polygon[Len(polygon)]
    THEN SubSeq(polygon, 1, Len(polygon) - 1)
    ELSE polygon

----------------------------------------------------------------------------
\* Adjacency

Region(i, poly, c) == [id |-> i, polygon |-> poly, color |-> c]

RegionIds(rs) == {rs[i].id : i \in DOMAIN rs}

\* a plausible slip: the neighbour is recorded on one side only
computeAdjacencyOneWay(rs) ==
    [a \in RegionIds(rs) |->
        {b \in RegionIds(rs) :
            \E i, j \in DOMAIN rs :
                /\ i < j
                /\ sharedEdgeLength(rs[i].polygon, rs[j].polygon) > 80
                /\ rs[i].id = a /\ rs[j].id = b}]

computeAdjacency(rs) ==
    [a \in RegionIds(rs) |->
        {b \in RegionIds(rs) :
            \E i, j \in DOMAIN rs :
                /\ i < j
                /\ sharedEdgeLength(rs[i].polygon, rs[j].polygon) > 80
                /\ \/ rs[i].id = a /\ rs[j].id = b
                   \/ rs[j].id = a /\ rs[i].id = b}]

\* generateRandomMap after createPoints.  The d3-delaunay results are inputs:
\* cell[i] is voronoi.cellPolygon(i) (<<>> for null) and nbrs[i] is the set
\* delaunay.neighbors(i) yields (indices other than i).
generateRandomMap(regionCount, width, height, cell, nbrs) ==
    LET kept == {i \in 0 .. regionCount - 1 : cell[i] # <<>>}
        clampPoly(poly) ==
            [k \in DOMAIN poly |->
                Pt(clamp(poly[k].x, 0, width), clamp(poly[k].y, 0, height))]
        regionAt(i) == Region(i, clampPoly(normalizePolygon(cell[i])), Null)
        all == [k \in 1 .. regionCount |-> k - 1]
        present == SelectSeq(all, LAMBDA i : i \in kept)
    IN  [regions |-> [k \in DOMAIN present |-> regionAt(present[k])],
         adjacency |->
            [a \in kept |->
                {b \in kept : b \in nbrs[a] \/ a \in nbrs[b]}]]

\* JS Map lookup that may miss
Neighbors(adj, a) == IF a \in DOMAIN adj THEN adj[a] ELSE {}

Symmetric(adj) ==
    \A a \in DOMAIN adj : \A b \in DOMAIN adj : (b \in adj[a]) <=> (a \in adj[b])
Irreflexive(adj) == \A a \in DOMAIN adj : a \notin adj[a]

----------------------------------------------------------------------------
\* Conflicts

\* regions.map(r => [r.id, r]) into a Map: the last region of an id wins
regionMapGet(rs, rid) ==
    LET idx == {i \in DOMAIN rs : rs[i].id = rid}
    IN  rs[CHOOSE i \in idx : \A k \in idx : k <= i]

\* every (key, neighbour) the two forEach loops over the adjacency map visit
adjacencyPairs(adj) ==
    SetToSeq({pr \in (DOMAIN adj) \X (UNION {adj[a] : a \in DOMAIN adj}) :
                 pr[2] \in adj[pr[1]]})

\* does the pair (regionId, neighborId) go into the conflicts list
conflictPair(rs, regionId, neighborId) ==
    /\ regionId \in RegionIds(rs)
    /\ regionMapGet(rs, regionId).color # Null
    /\ neighborId \in RegionIds(rs)
    /\ regionMapGet(rs, neighborId).color # Null
    /\ IdLess(regionId, neighborId)
    /\ regionMapGet(rs, regionId).color = regionMapGet(rs, neighborId).color

\* the pairs among `pairs` (every (key, neighbour) of the adjacency map, in
\* iteration order) that are conflicts
RECURSIVE conflictsAmong(_, _, _)
conflictsAmong(rs, pairs, k) ==
    IF k > Len(pairs) THEN <<>>
    ELSE (IF conflictPair(rs, pairs[k][1], pairs[k][2]) THEN <<pairs[k]>> ELSE <<>>)
         \o conflictsAmong(rs, pairs, k + 1)

\* a plausible slip: the regionId < neighborId guard is dropped
findConflictsBothOrders(rs, adj) ==
    SelectSeq(adjacencyPairs(adj),
              LAMBDA pr : /\ pr[1] \in RegionIds(rs) /\ pr[2] \in RegionIds(rs)
                          /\ regionMapGet(rs, pr[1]).color # Null
                          /\ regionMapGet(rs, pr[1]).color = regionMapGet(rs, pr[2]).color)

findConflicts(rs, adj) ==
    conflictsAmong(rs, adjacencyPairs(adj), 1)

----------------------------------------------------------------------------
\* Freehand snap engine

\* MAP_WIDTH * 0.012 = 10.8 map units, in tenths
snapThreshold == (MAP_WIDTH * 12) \div 100

\* a large distance standing for Infinity
Infinity == 1000000

\* index of the point of greatest deviation from the chord (the first of equals),
\* 0 when no interior point deviates
RECURSIVE simplifyScan(_, _, _, _)
simplifyScan(points, i, index, maxDistance) ==
    IF i > Len(points) - 1 THEN <<index, maxDistance>>
    ELSE LET d == pointLineDistance(points[i], points[1], points[Len(points)])
         IN  IF d > maxDistance THEN simplifyScan(points, i + 1, i, d)
                                ELSE simplifyScan(points, i + 1, index, maxDistance)

\* a plausible slip: the point shared by the two halves is kept twice
DropLastKeepsAll(s) == s

\* s.slice(0, -1)
DropLast(s) == SubSeq(s, 1, Len(s) - 1)

RECURSIVE simplifyPath(_, _)
\* simplifyPath once the scan has found <<index, maxDistance>>
RECURSIVE simplifySplit(_, _, _)
simplifySplit(points, tolerance, found) ==
    IF found[2] > tolerance
    THEN DropLast(simplifyPath(SubSeq(points, 1, found[1]), tolerance))
         \o simplifyPath(SubSeq(points, found[1], Len(points)), tolerance)
    ELSE <<points[1], points[Len(points)]>>

simplifyPath(points, tolerance) ==
    IF Len(points) < 3 THEN points
    ELSE simplifySplit(points, tolerance, simplifyScan(points, 2, 0, 0))

fitToMaxPoints(points, targetCount) ==
    IF Len(points) <= targetCount THEN points
    ELSE LET step == (Len(points) + targetCount - 1) \div targetCount
             taken == ((Len(points) - 1) \div step) + 1
             result == [k \in 1 .. taken |-> points[(k - 1) * step + 1]]
         IN  IF (taken - 1) * step + 1 # Len(points)
             THEN Append(result, points[Len(points)])
             ELSE result

closePath(points, threshold) ==
    IF Len(points) < 3 THEN <<>>
    ELSE LET closed ==
                 IF distancePoints(points[1], points[Len(points)]) < threshold
                 THEN SubSeq(points, 1, Len(points) - 1)
                 ELSE Append(points, points[1])
         IN  IF Len(closed) < 3 THEN <<>> ELSE closed

\* the boundary edges of one polygon longer than threshold / 2
polygonEdges(poly, threshold) ==
    LET all == [i \in DOMAIN poly |->
                  [start |-> poly[i], end |-> poly[(i % Len(poly)) + 1]]]
    IN  SelectSeq(all, LAMBDA e : 2 * distancePoints(e.start, e.end) > threshold)

\* the edges of the regions from the k-th region on
RECURSIVE edgesFrom(_, _, _)
edgesFrom(rs, threshold, k) ==
    IF k > Len(rs) THEN <<>>
    ELSE polygonEdges(rs[k].polygon, threshold) \o edgesFrom(rs, threshold, k + 1)

buildEdgeGraph(rs, threshold) == edgesFrom(rs, threshold, 1)

\* start + clamp(t, 0, 1) * (end - start), rounded to the lattice
projectPointToSegment(point, start, end) ==
    LET vx == end.x - start.x
        vy == end.y - start.y
        lenSq == vx * vx + vy * vy
        dot == (point.x - start.x) * vx + (point.y - start.y) * vy
        round(num) == (2 * num + lenSq) \div (2 * lenSq)
    IN  IF lenSq = 0 THEN start
        ELSE IF dot <= 0 THEN start
        ELSE IF dot >= lenSq THEN end
        ELSE Pt(start.x + round(dot * vx), start.y + round(dot * vy))

RECURSIVE snapOnePoint(_, _, _, _, _)
snapOnePoint(point, edges, k, snapped, minDist) ==
    IF k > Len(edges) THEN snapped
    ELSE LET projection == projectPointToSegment(point, edges[k].start, edges[k].end)
             dist == distancePoints(point, projection)
         IN  IF dist < minDist
             THEN snapOnePoint(point, edges, k + 1, projection, dist)
             ELSE snapOnePoint(point, edges, k + 1, snapped, minDist)

snapPointsToEdges(points, edges, threshold) ==
    IF Len(edges) = 0 THEN points
    ELSE [i \in DOMAIN points |-> snapOnePoint(points[i], edges, 1, points[i], threshold)]

\* the last node (in insertion order) closer than threshold: its index, 0 for null
findNearestNode(nodes, point, threshold) ==
    LET near == {i \in DOMAIN nodes : distancePoints(nodes[i], point) < threshold}
    IN  IF near = {} THEN 0 ELSE CHOOSE i \in near : \A k \in near : k <= i

\* getNode of buildGraphFromEdges: <<nodes after the call, the node's index>>
getNode(nodes, point, threshold) ==
    LET existing == findNearestNode(nodes, point, threshold)
    IN  IF existing # 0 THEN <<nodes, existing>>
        ELSE <<Append(nodes, point), Len(nodes) + 1>>

\* connect of buildGraphFromEdges.  A graph is its keys in insertion order and
\* the weight maps of those keys.
connect(graph, nodes, a, b) ==
    LET keys1 == IF a \in Range(graph.keys) THEN graph.keys ELSE Append(graph.keys, a)
        keys2 == IF b \in Range(keys1) THEN keys1 ELSE Append(keys1, b)
        length == distancePoints(nodes[a], nodes[b])
        old(n) == IF n \in DOMAIN graph.weights THEN graph.weights[n] ELSE <<>>
        setw(m, key, val) == [n \in DOMAIN m \cup {key} |-> IF n = key THEN val ELSE m[n]]
        wa == setw(old(a), b, length)
        wb == IF a = b THEN setw(wa, a, length) ELSE setw(old(b), a, length)
    IN  [keys |-> keys2,
         weights |-> [n \in Range(keys2) |->
                        IF n = b THEN wb ELSE IF n = a THEN wa ELSE graph.weights[n]]]

RECURSIVE addEdges(_, _, _, _, _)
addEdges(edges, k, nodes, graph, threshold) ==
    IF k > Len(edges) THEN [graph |-> graph, nodes |-> nodes]
    ELSE LET ga == getNode(nodes, edges[k].start, threshold)
             gb == getNode(ga[1], edges[k].end, threshold)
         IN  addEdges(edges, k + 1, gb[1], connect(graph, gb[1], ga[2], gb[2]), threshold)

\* connect(node, nearest) when the nearest node exists and is another node
connectNearest(graph, nodes, node, nearest) ==
    IF nearest # 0 /\ nearest # node THEN connect(graph, nodes, node, nearest)
    ELSE graph

\* the end of buildGraphFromEdges, from `const nearestStart` on
graphWithEnds(graph, nodes, startNode, endNode, startPoint, endPoint, threshold) ==
    [graph |-> connectNearest(
                   connectNearest(graph, nodes, startNode,
                                  findNearestNode(nodes, startPoint, threshold)),
                   nodes, endNode, findNearestNode(nodes, endPoint, threshold)),
     nodes |-> nodes]

\* `const endNode = getNode(endPoint)`; gs is getNode(startPoint)'s result
graphWithEndNode(graph, gs, ge, startPoint, endPoint, threshold) ==
    graphWithEnds(graph, ge[1], gs[2], ge[2], startPoint, endPoint, threshold)

\* `const startNode = getNode(startPoint)`
graphWithStartNode(graph, gs, startPoint, endPoint, threshold) ==
    graphWithEndNode(graph, gs, getNode(gs[1], endPoint, threshold),
                     startPoint, endPoint, threshold)

\* buildGraphFromEdges once the edges.forEach loop has run
graphAfterEdges(built, startPoint, endPoint, threshold) ==
    graphWithStartNode(built.graph, getNode(built.nodes, startPoint, threshold),
                       startPoint, endPoint, threshold)

buildGraphFromEdges(edges, startPoint, endPoint, threshold) ==
    graphAfterEdges(addEdges(edges, 1, <<>>, [keys |-> <<>>, weights |-> <<>>], threshold),
                    startPoint, endPoint, threshold)

\* the scan of the unvisited set for the smallest distance: the first key, in
\* insertion order, whose distance is below every earlier one; 0 for null
RECURSIVE pickCurrent(_, _, _, _, _, _)
pickCurrent(keys, k, distances, unvisited, current, min) ==
    IF k > Len(keys) THEN current
    ELSE IF keys[k] \in unvisited /\ distances[keys[k]] < min
         THEN pickCurrent(keys, k + 1, distances, unvisited, keys[k], distances[keys[k]])
         ELSE pickCurrent(keys, k + 1, distances, unvisited, current, min)

\* the while loop of shortestPath; yields the `previous` map
RECURSIVE dijkstra(_, _, _, _, _)
dijkstra(graph, endId, distances, previous, unvisited) ==
    IF unvisited = {} THEN previous
    ELSE LET current == pickCurrent(graph.keys, 1, distances, unvisited, 0, Infinity)
         IN  IF current = 0 THEN previous
             ELSE IF current = endId THEN previous
             ELSE LET rest == unvisited \ {current}
                      w == graph.weights[current]
                      better(n) == /\ n \in DOMAIN w
                                   /\ n \in rest
                                   /\ distances[current] + w[n] < distances[n]
                      newDist == [n \in DOMAIN distances |->
                                    IF better(n) THEN distances[current] + w[n]
                                    ELSE distances[n]]
                      newPrev == [n \in DOMAIN previous \cup {m \in DOMAIN distances : better(m)} |->
                                    IF better(n) THEN current ELSE previous[n]]
                  IN  dijkstra(graph, endId, newDist, newPrev, rest)

\* the walk back from endId along `previous`; <<>> for null
RECURSIVE walkBack(_, _, _, _)
walkBack(previous, startId, current, path) ==
    IF current = startId THEN path
    ELSE IF current \notin DOMAIN previous THEN <<>>
    ELSE walkBack(previous, startId, previous[current], Append(path, previous[current]))

\* the end of shortestPath, from `if (!previous.has(endId) ...` on
pathFromPrevious(previous, startId, endId) ==
    IF endId \notin DOMAIN previous /\ startId # endId THEN <<>>
    ELSE walkBack(previous, startId, endId, <<endId>>)

\* a plausible slip: the search is skipped and the two ends are joined directly
shortestPathDirect(graph, startId, endId) ==
    IF startId \notin Range(graph.keys) \/ endId \notin Range(graph.keys) THEN <<>>
    ELSE <<endId, startId>>

\* node ids from endId back to startId; <<>> for null
shortestPath(graph, startId, endId) ==
    IF startId \notin Range(graph.keys) \/ endId \notin Range(graph.keys) THEN <<>>
    ELSE pathFromPrevious(
             dijkstra(graph, endId,
                      [n \in Range(graph.keys) |-> IF n = startId THEN 0 ELSE Infinity],
                      <<>>, Range(graph.keys)),
             startId, endId)

mergePolyline(line, path) == line \o Tail(path)

Reverse(s) == [i \in DOMAIN s |-> s[Len(s) + 1 - i]]

\* the result for closePath's value; polygon is <<>> for null and message is
\* "invalid" for the source's text
closedResult(closed) ==
    IF closed = <<>> THEN [polygon |-> <<>>, message |-> "invalid"]
    ELSE [polygon |-> closed, message |-> ""]

\* the end of buildSnappedPolygon, from `if (path && path.length > 1)` on
polygonFromPath(snappedPoints, nodes, path) ==
    IF Len(path) > 1
    THEN [polygon |-> mergePolyline(snappedPoints,
                          Reverse([i \in DOMAIN path |-> nodes[path[i]]])),
          message |-> ""]
    ELSE closedResult(closePath(snappedPoints, CLOSE_THRESHOLD))

\* `if (startNode && endNode) path = shortestPath(...)`; 0 is a null node
pathBetween(graph, startNode, endNode) ==
    IF startNode # 0 /\ endNode # 0 THEN shortestPath(graph, startNode, endNode)
    ELSE <<>>

\* buildSnappedPolygon once the graph is built
polygonFromGraph(snappedPoints, built, threshold) ==
    polygonFromPath(snappedPoints, built.nodes,
        pathBetween(built.graph,
            findNearestNode(built.nodes, snappedPoints[1], threshold),
            findNearestNode(built.nodes, snappedPoints[Len(snappedPoints)], threshold)))

\* buildSnappedPolygon once the points are snapped
polygonFromSnapped(snappedPoints, edges, threshold) ==
    polygonFromGraph(snappedPoints,
        buildGraphFromEdges(edges, snappedPoints[1], snappedPoints[Len(snappedPoints)],
                            threshold),
        threshold)

\* buildSnappedPolygon once the boundary edges are collected
polygonFromEdges(points, edges, threshold) ==
    polygonFromSnapped(snapPointsToEdges(points, edges, threshold), edges, threshold)

buildSnappedPolygon(points, rs, threshold) ==
    polygonFromEdges(points, buildEdgeGraph(rs, threshold), threshold)

----------------------------------------------------------------------------
\* Bounds of the model

\* cells of a random map (the source clamps the count to 10..100)
MaxRegionCount == 2
\* recolourings kept in the undo history
MaxHistory == 2
\* pointer samples in one stroke
MaxStroke == 4
\* regions in a custom map
MaxCustom == 1

\* where the pointer is sampled
DrawPoints == {Pt(0, 0), Pt(30, 0), Pt(0, 30)}

\* the polygon d3-delaunay returns for cell i, closed by repeating its first vertex
CellPolygon(i) ==
    <<Pt(20 * i, 0), Pt(20 * i + 20, 0), Pt(20 * i + 20, 20), Pt(20 * i, 20), Pt(20 * i, 0)>>

\* the maps generateRandomMap can return for MaxRegionCount points: any set of
\* cells may come back null, and any set of pairs may be Delaunay neighbours
RandomMaps ==
    LET idx == 0 .. MaxRegionCount - 1
        pairs == {e \in SUBSET idx : Cardinality(e) = 2}
    IN  {generateRandomMap(MaxRegionCount, MAP_WIDTH, MAP_HEIGHT,
                           [i \in idx |-> IF i \in kept THEN CellPolygon(i) ELSE <<>>],
                           [i \in idx |-> {j \in idx : {i, j} \in edges}]) :
            kept \in SUBSET idx, edges \in SUBSET pairs}

----------------------------------------------------------------------------
\* FourColorGame handlers

isPlaying == mode = "random" \/ ~customEditing

regionGet(rid) == regionMapGet(regions, rid)

\* applyColorChange: the regions with one region's colour replaced
applyColorChange(rs, regionId, nextColor) ==
    [i \in DOMAIN rs |->
        IF rs[i].id = regionId THEN [rs[i] EXCEPT !.color = nextColor] ELSE rs[i]]

unusedFn == UNCHANGED <<fnVars, cpVars>>
drawVars == <<customRegions, customEditing, drawingPoints, drawingMessage,
              previewPolygon, previewMessage, isDrawing>>

generateNewPuzzle ==
    \E m \in RandomMaps :
        /\ regions' = m.regions
        /\ adjacency' = m.adjacency
        /\ selectedId' = Null
        /\ conflicts' = <<>>
        /\ message' = ""
        /\ history' = <<>>
        /\ redoStack' = <<>>

startCustomChallenge ==
    /\ mode = "custom" /\ customEditing
    /\ Len(customRegions) >= 2
    /\ LET sanitized == [i \in DOMAIN customRegions |->
                            [customRegions[i] EXCEPT !.color = Null]]
       IN  /\ regions' = sanitized
           /\ adjacency' = computeAdjacency(sanitized)
    /\ selectedId' = Null
    /\ conflicts' = <<>>
    /\ message' = ""
    /\ history' = <<>>
    /\ redoStack' = <<>>
    /\ customEditing' = FALSE
    /\ UNCHANGED <<mode, customRegions, drawingPoints, drawingMessage,
                   previewPolygon, previewMessage, isDrawing>>
    /\ unusedFn

\* the handler, then the effect that regenerates the puzzle when the mode
\* becomes 'random'
handleModeChange(nextMode) ==
    /\ mode' = nextMode
    /\ IF nextMode = "custom"
       THEN /\ customEditing' = TRUE
            /\ regions' = <<>>
            /\ adjacency' = <<>>
            /\ previewPolygon' = <<>>
            /\ previewMessage' = ""
            /\ selectedId' = Null
            /\ conflicts' = <<>>
            /\ message' = ""
            /\ history' = <<>>
            /\ redoStack' = <<>>
       ELSE /\ UNCHANGED <<customEditing, previewPolygon, previewMessage>>
            /\ IF mode # "random"
               THEN generateNewPuzzle
               ELSE /\ selectedId' = Null
                    /\ conflicts' = <<>>
                    /\ message' = ""
                    /\ history' = <<>>
                    /\ redoStack' = <<>>
                    /\ UNCHANGED <<regions, adjacency>>
    /\ UNCHANGED <<customRegions, drawingPoints, drawingMessage, isDrawing>>
    /\ unusedFn

\* a click on a rendered polygon: the custom regions while editing, else the regions
handleRegionClick(regionId) ==
    /\ regionId \in RegionIds(IF mode = "custom" /\ customEditing
                              THEN customRegions ELSE regions)
    /\ selectedId' = regionId
    /\ UNCHANGED <<mode, regions, adjacency, conflicts, message, history, redoStack>>
    /\ UNCHANGED drawVars
    /\ unusedFn

\* a plausible slip: the history entry records the new colour as the previous one
applyPaletteColorWrongPrev(nextColor) ==
    /\ isPlaying
    /\ selectedId # Null
    /\ selectedId \in RegionIds(regions)
    /\ regionGet(selectedId).color # nextColor
    /\ Len(history) < MaxHistory
    /\ history' = Append(history, [regionId |-> selectedId,
                                   prevColor |-> nextColor,
                                   nextColor |-> nextColor])
    /\ redoStack' = <<>>
    /\ regions' = applyColorChange(regions, selectedId, nextColor)
    /\ conflicts' = <<>>
    /\ message' = ""
    /\ UNCHANGED <<mode, adjacency, selectedId>>
    /\ UNCHANGED drawVars
    /\ unusedFn

applyPaletteColor(nextColor) ==
    /\ isPlaying
    /\ selectedId # Null
    /\ selectedId \in RegionIds(regions)
    /\ regionGet(selectedId).color # nextColor
    /\ Len(history) < MaxHistory
    /\ history' = Append(history, [regionId |-> selectedId,
                                   prevColor |-> regionGet(selectedId).color,
                                   nextColor |-> nextColor])
    /\ redoStack' = <<>>
    /\ regions' = applyColorChange(regions, selectedId, nextColor)
    /\ conflicts' = <<>>
    /\ message' = ""
    /\ UNCHANGED <<mode, adjacency, selectedId>>
    /\ UNCHANGED drawVars
    /\ unusedFn

handleClearSelected ==
    /\ isPlaying
    /\ selectedId # Null
    /\ selectedId \in RegionIds(regions)
    /\ regionGet(selectedId).color # Null
    /\ Len(history) < MaxHistory
    /\ history' = Append(history, [regionId |-> selectedId,
                                   prevColor |-> regionGet(selectedId).color,
                                   nextColor |-> Null])
    /\ redoStack' = <<>>
    /\ regions' = applyColorChange(regions, selectedId, Null)
    /\ conflicts' = <<>>
    /\ message' = ""
    /\ UNCHANGED <<mode, adjacency, selectedId>>
    /\ UNCHANGED drawVars
    /\ unusedFn

\* a plausible slip: undo applies the entry's new colour again
undoneKeepsColor(hist, redo, rs) ==
    IF Len(hist) = 0 THEN [history |-> hist, redoStack |-> redo, regions |-> rs]
    ELSE [history |-> SubSeq(hist, 1, Len(hist) - 1),
          redoStack |-> <<hist[Len(hist)]>> \o redo,
          regions |-> applyColorChange(rs, hist[Len(hist)].regionId,
                                       hist[Len(hist)].nextColor)]

\* the three state updates of handleUndo
undone(hist, redo, rs) ==
    IF Len(hist) = 0 THEN [history |-> hist, redoStack |-> redo, regions |-> rs]
    ELSE [history |-> SubSeq(hist, 1, Len(hist) - 1),
          redoStack |-> <<hist[Len(hist)]>> \o redo,
          regions |-> applyColorChange(rs, hist[Len(hist)].regionId,
                                       hist[Len(hist)].prevColor)]

\* the three state updates of handleRedo
redone(hist, redo, rs) ==
    IF Len(redo) = 0 THEN [history |-> hist, redoStack |-> redo, regions |-> rs]
    ELSE [history |-> Append(hist, Head(redo)),
          redoStack |-> Tail(redo),
          regions |-> applyColorChange(rs, Head(redo).regionId, Head(redo).nextColor)]

handleUndo ==
    /\ isPlaying
    /\ Len(history) > 0
    /\ history' = undone(history, redoStack, regions).history
    /\ redoStack' = undone(history, redoStack, regions).redoStack
    /\ regions' = undone(history, redoStack, regions).regions
    /\ UNCHANGED <<mode, adjacency, selectedId, conflicts, message>>
    /\ UNCHANGED drawVars
    /\ unusedFn

handleRedo ==
    /\ isPlaying
    /\ Len(redoStack) > 0
    /\ history' = redone(history, redoStack, regions).history
    /\ redoStack' = redone(history, redoStack, regions).redoStack
    /\ regions' = redone(history, redoStack, regions).regions
    /\ UNCHANGED <<mode, adjacency, selectedId, conflicts, message>>
    /\ UNCHANGED drawVars
    /\ unusedFn

\* a plausible slip: the test for unfilled regions is left out
handleCheckSkipsUnfilled ==
    /\ isPlaying
    /\ Len(regions) > 0
    /\ conflicts' = findConflicts(regions, adjacency)
    /\ message' = IF Len(findConflicts(regions, adjacency)) > 0 THEN "conflicts"
                  ELSE "success"
    /\ UNCHANGED <<mode, regions, adjacency, selectedId, history, redoStack>>
    /\ UNCHANGED drawVars
    /\ unusedFn

handleCheck ==
    /\ isPlaying
    /\ Len(regions) > 0
    /\ LET conflictPairs == findConflicts(regions, adjacency)
           allFilled == \A i \in DOMAIN regions : regions[i].color # Null
       IN  /\ conflicts' = conflictPairs
           /\ message' = IF Len(conflictPairs) > 0 THEN "conflicts"
                         ELSE IF ~allFilled THEN "unfilled"
                         ELSE "success"
    /\ UNCHANGED <<mode, regions, adjacency, selectedId, history, redoStack>>
    /\ UNCHANGED drawVars
    /\ unusedFn

handleReset ==
    /\ isPlaying
    /\ Len(regions) > 0
    /\ regions' = [i \in DOMAIN regions |-> [regions[i] EXCEPT !.color = Null]]
    /\ history' = <<>>
    /\ redoStack' = <<>>
    /\ conflicts' = <<>>
    /\ message' = ""
    /\ UNCHANGED <<mode, adjacency, selectedId>>
    /\ UNCHANGED drawVars
    /\ unusedFn

handleNewPuzzle ==
    /\ IF mode = "random"
       THEN /\ generateNewPuzzle
            /\ UNCHANGED customEditing
       ELSE /\ customEditing' = TRUE
            /\ regions' = <<>>
            /\ adjacency' = <<>>
            /\ conflicts' = <<>>
            /\ message' = ""
            /\ history' = <<>>
            /\ redoStack' = <<>>
            /\ UNCHANGED selectedId
    /\ UNCHANGED <<mode, customRegions, drawingPoints, drawingMessage,
                   previewPolygon, previewMessage, isDrawing>>
    /\ unusedFn

playVars == <<mode, regions, adjacency, selectedId, conflicts, message, history,
              redoStack>>

handlePointerDown(point) ==
    /\ mode = "custom" /\ customEditing
    /\ isDrawing' = TRUE
    /\ drawingPoints' = <<point>>
    /\ drawingMessage' = ""
    /\ UNCHANGED <<customRegions, customEditing, previewPolygon, previewMessage>>
    /\ UNCHANGED playVars
    /\ unusedFn

handlePointerMove(point) ==
    /\ isDrawing /\ mode = "custom" /\ customEditing
    /\ Len(drawingPoints) < MaxStroke
    /\ drawingPoints' = Append(drawingPoints, point)
    /\ UNCHANGED <<customRegions, customEditing, drawingMessage, previewPolygon,
                   previewMessage, isDrawing>>
    /\ UNCHANGED playVars
    /\ unusedFn

\* simplify, cap and snap a stroke of at least 3 samples (handlePointerUp's calls)
strokePolygon(points, rs) ==
    buildSnappedPolygon(
        fitToMaxPoints(simplifyPath(points, 30), TARGET_SIMPLIFY_POINTS),
        rs, snapThreshold)

\* a plausible slip: a rejected stroke discards the pending preview
finishStrokeDropsPreview(built) ==
    IF built.polygon = <<>>
    THEN /\ drawingMessage' = "invalid"
         /\ previewPolygon' = <<>>
         /\ UNCHANGED previewMessage
    ELSE IF Abs(polygonArea(built.polygon)) < MIN_POLYGON_AREA
    THEN /\ drawingMessage' = "tooSmall"
         /\ previewPolygon' = <<>>
         /\ UNCHANGED previewMessage
    ELSE /\ previewPolygon' = built.polygon
         /\ previewMessage' = "ready"
         /\ UNCHANGED drawingMessage

\* a plausible slip: the area test is left out
finishStrokeNoAreaTest(built) ==
    IF built.polygon = <<>>
    THEN /\ drawingMessage' = "invalid"
         /\ UNCHANGED <<previewPolygon, previewMessage>>
    ELSE /\ previewPolygon' = built.polygon
         /\ previewMessage' = "ready"
         /\ UNCHANGED drawingMessage

\* handlePointerUp from `if (!polygon)` on; built is buildSnappedPolygon's result
finishStroke(built) ==
    IF built.polygon = <<>>
    THEN /\ drawingMessage' = "invalid"
         /\ UNCHANGED <<previewPolygon, previewMessage>>
    ELSE IF Abs(polygonArea(built.polygon)) < MIN_POLYGON_AREA
    THEN /\ drawingMessage' = "tooSmall"
         /\ UNCHANGED <<previewPolygon, previewMessage>>
    ELSE /\ previewPolygon' = built.polygon
         /\ previewMessage' = "ready"
         /\ UNCHANGED drawingMessage

handlePointerUp ==
    /\ isDrawing /\ mode = "custom" /\ customEditing
    /\ isDrawing' = FALSE
    /\ drawingPoints' = <<>>
    /\ IF Len(drawingPoints) < 3
       THEN UNCHANGED <<drawingMessage, previewPolygon, previewMessage>>
       ELSE finishStroke(strokePolygon(drawingPoints, customRegions))
    /\ UNCHANGED <<customRegions, customEditing>>
    /\ UNCHANGED playVars
    /\ unusedFn

\* the new region's id `custom-<Date.now()>-<random>` sorts after every id in use
handleConfirmPreview ==
    /\ mode = "custom" /\ customEditing
    /\ previewPolygon # <<>>
    /\ Len(customRegions) < MaxCustom
    /\ LET used == RegionIds(customRegions)
           regionId == IF used = {} THEN 1
                       ELSE 1 + CHOOSE m \in used : \A k \in used : k <= m
       IN  customRegions' = Append(customRegions, Region(regionId, previewPolygon, Null))
    /\ previewPolygon' = <<>>
    /\ previewMessage' = ""
    /\ UNCHANGED <<customEditing, drawingPoints, drawingMessage, isDrawing>>
    /\ UNCHANGED playVars
    /\ unusedFn

handleCancelPreview ==
    /\ mode = "custom" /\ customEditing
    /\ previewPolygon # <<>>
    /\ previewPolygon' = <<>>
    /\ previewMessage' = "cancelled"
    /\ UNCHANGED <<customRegions, customEditing, drawingPoints, drawingMessage, isDrawing>>
    /\ UNCHANGED playVars
    /\ unusedFn

handleDeleteCustomRegion ==
    /\ mode = "custom" /\ customEditing
    /\ selectedId # Null
    /\ customRegions' = SelectSeq(customRegions, LAMBDA r : r.id # selectedId)
    /\ selectedId' = Null
    /\ UNCHANGED <<mode, regions, adjacency, conflicts, message, history, redoStack>>
    /\ UNCHANGED <<customEditing, drawingPoints, drawingMessage, previewPolygon,
                   previewMessage, isDrawing>>
    /\ unusedFn

handleClearCustom ==
    /\ mode = "custom" /\ customEditing
    /\ Len(customRegions) > 0
    /\ customRegions' = <<>>
    /\ selectedId' = Null
    /\ previewPolygon' = <<>>
    /\ previewMessage' = ""
    /\ UNCHANGED <<mode, regions, adjacency, conflicts, message, history, redoStack>>
    /\ UNCHANGED <<customEditing, drawingPoints, drawingMessage, isDrawing>>
    /\ unusedFn

----------------------------------------------------------------------------
\* The component after mounting: the initial hook values, then the effect that
\* generates the first random puzzle

GameInit ==
    /\ mode = "random"
    /\ \E m \in RandomMaps : regions = m.regions /\ adjacency = m.adjacency
    /\ selectedId = Null
    /\ conflicts = <<>>
    /\ message = ""
    /\ history = <<>>
    /\ redoStack = <<>>
    /\ customRegions = <<>>
    /\ customEditing = TRUE
    /\ drawingPoints = <<>>
    /\ drawingMessage = ""
    /\ previewPolygon = <<>>
    /\ previewMessage = ""
    /\ isDrawing = FALSE

FnIdle == call = <<>> /\ ret = <<>>
CpIdle == cpCount = 0 /\ cpPoints = <<>> /\ cpAttempts = 0 /\ cpPc = "idle"

Init == GameInit /\ FnIdle /\ CpIdle

\* Playing: selecting, colouring, undo and redo, checking, resetting, new puzzles
\* and the mode tabs
Next ==
    \/ \E nextMode \in {"random", "custom"} : handleModeChange(nextMode)
    \/ \E regionId \in 0 .. MaxRegionCount - 1 : handleRegionClick(regionId)
    \/ \E nextColor \in 0 .. COLORS - 1 : applyPaletteColor(nextColor)
    \/ handleClearSelected
    \/ handleUndo
    \/ handleRedo
    \/ handleCheck
    \/ handleReset
    \/ handleNewPuzzle

Spec == Init /\ [][Next]_vars

\* Custom editing: the custom tab, strokes, the preview and the custom region list
NextDraw ==
    \/ handleModeChange("custom")
    \/ \E point \in DrawPoints : handlePointerDown(point)
    \/ \E point \in DrawPoints : handlePointerMove(point)
    \/ handlePointerUp
    \/ handleConfirmPreview
    \/ handleCancelPreview
    \/ \E regionId \in 1 .. MaxCustom : handleRegionClick(regionId)
    \/ handleDeleteCustomRegion
    \/ handleClearCustom

SpecDraw == Init /\ [][NextDraw]_vars

----------------------------------------------------------------------------
\* Claims about freehand strokes (SpecDraw)

\* why the stroke `points` drawn over the custom regions `rs` fails; "" when it
\* yields a preview
strokeFailure(points, rs) ==
    IF Len(points) < 3 THEN "TooFewPoints"
    ELSE IF strokePolygon(points, rs).polygon = <<>> THEN "NoValidClosure"
    ELSE IF Abs(polygonArea(strokePolygon(points, rs).polygon)) < MIN_POLYGON_AREA
    THEN "RegionTooSmall"
    ELSE ""

\* a step of handlePointerUp that ends a stroke
PointerUpStep == isDrawing /\ mode = "custom" /\ customEditing /\ ~isDrawing'

\* a step of the stroke: pointer down, move or up
StrokeStep == drawingPoints' # drawingPoints \/ isDrawing' # isDrawing

\* C7: every failed stroke is reported with its rejection reason: after the
\* pointer-up of a stroke that fails, the drawing message is set, and it is the
\* invalid-shape message for NoValidClosure and the too-small message for
\* RegionTooSmall.
C7_FailedStrokeHasReason ==
    [][PointerUpStep /\ strokeFailure(drawingPoints, customRegions) # ""
       => /\ drawingMessage' # ""
          /\ strokeFailure(drawingPoints, customRegions) = "NoValidClosure"
                => drawingMessage' = "invalid"
          /\ strokeFailure(drawingPoints, customRegions) = "RegionTooSmall"
                => drawingMessage' = "tooSmall"]_vars

\* C8: a rejected stroke does not mutate the map: no step of a stroke other
\* than the pointer-up of a stroke that succeeds changes the custom regions, the
\* playing regions, the adjacency graph or the pending preview.
C8_RejectedStrokeKeepsMap ==
    [][StrokeStep /\ ~(PointerUpStep /\ strokeFailure(drawingPoints, customRegions) = "")
       => UNCHANGED <<customRegions, regions, adjacency, previewPolygon>>]_vars

\* a stroke was rejected with a reason while a preview was pending and a custom
\* region existed, and both are still there
C8_Witness ==
    /\ drawingMessage # ""
    /\ previewPolygon # <<>>
    /\ Len(customRegions) > 0
    /\ ~isDrawing

\* C9: every stored custom polygon, and the pending preview, has at least 3
\* vertices and an absolute area of at least 350.
C9_StoredPolygonsValid ==
    /\ \A i \in DOMAIN customRegions :
          /\ Len(customRegions[i].polygon) >= 3
          /\ Abs(polygonArea(customRegions[i].polygon)) >= MIN_POLYGON_AREA
    /\ previewPolygon # <<>> =>
          /\ Len(previewPolygon) >= 3
          /\ Abs(polygonArea(previewPolygon)) >= MIN_POLYGON_AREA

\* a confirmed region and a pending preview stitched along its boundary
C9_Witness ==
    /\ Len(customRegions) > 0
    /\ previewPolygon # <<>>
    /\ previewPolygon # customRegions[1].polygon

----------------------------------------------------------------------------
\* Claims about undo and redo (Spec)

\* a step of applyPaletteColor or handleClearSelected
RecolorStep ==
    \/ \E nextColor \in 0 .. COLORS - 1 : applyPaletteColor(nextColor)
    \/ handleClearSelected

\* C10: right after a recolour or clear, undo restores every region's colour
\* from before the action, a redo after that undo restores the colours from after
\* it, and the action has emptied the redo stack.
C10_UndoRedoRoundTrip ==
    [][RecolorStep
       => /\ Len(history') > 0
          /\ redoStack' = <<>>
          /\ undone(history', redoStack', regions').regions = regions
          /\ redone(undone(history', redoStack', regions').history,
                    undone(history', redoStack', regions').redoStack,
                    undone(history', redoStack', regions').regions).regions = regions']_vars

\* a region was recoloured from one colour to another, after an earlier action
C10_Witness ==
    /\ Len(history) = 2
    /\ redoStack = <<>>
    /\ history[2].prevColor # Null
    /\ history[2].nextColor # Null
    /\ regionGet(history[2].regionId).color = history[2].nextColor

----------------------------------------------------------------------------
\* Calls of the pure functions: the arguments are drawn from bounded sets, the
\* function is applied once, and `call` and `ret` hold the arguments and the value

\* regions in an argument list
MaxFnRegions == 3

GameIdle ==
    /\ mode = "idle"
    /\ regions = <<>>
    /\ adjacency = <<>>
    /\ selectedId = Null
    /\ conflicts = <<>>
    /\ message = ""
    /\ history = <<>>
    /\ redoStack = <<>>
    /\ customRegions = <<>>
    /\ customEditing = FALSE
    /\ drawingPoints = <<>>
    /\ drawingMessage = ""
    /\ previewPolygon = <<>>
    /\ previewMessage = ""
    /\ isDrawing = FALSE

FnInit == GameIdle /\ FnIdle /\ CpIdle

\* ids `region-1`, `region-2`, `region-10`: as strings, region-10 < region-2
IdPool == {1, 2, 10}

\* a square, its right-hand neighbour, a square overlapping half of that shared
\* side, a triangle on top of the first square, and a square far away
PolygonPool ==
    { <<Pt(0, 0), Pt(20, 0), Pt(20, 20), Pt(0, 20)>>,
      <<Pt(20, 0), Pt(40, 0), Pt(40, 20), Pt(20, 20)>>,
      <<Pt(20, 10), Pt(40, 10), Pt(40, 30), Pt(20, 30)>>,
      <<Pt(0, 20), Pt(20, 20), Pt(0, 40)>>,
      <<Pt(100, 100), Pt(120, 100), Pt(120, 120), Pt(100, 120)>> }

\* sequences over S of length at most n without repeated elements
InjectiveSeqs(S, n) ==
    UNION {{q \in [1 .. k -> S] : \A i, j \in 1 .. k : i # j => q[i] # q[j]} : k \in 0 .. n}

\* region lists with distinct ids, polygons from the pool and the given colours
RegionLists(colours) ==
    UNION {{[i \in DOMAIN ids |-> Region(ids[i], polys[i], cols[i])] :
               polys \in [DOMAIN ids -> PolygonPool], cols \in [DOMAIN ids -> colours]} :
           ids \in InjectiveSeqs(IdPool, MaxFnRegions)}

\* region lists that differ in ids and colours only
ColouredLists(colours) ==
    UNION {{[i \in DOMAIN ids |->
                Region(ids[i], <<Pt(0, 0), Pt(20, 0), Pt(20, 20), Pt(0, 20)>>, cols[i])] :
               cols \in [DOMAIN ids -> colours]} :
           ids \in InjectiveSeqs(IdPool, MaxFnRegions)}

\* the symmetric, irreflexive adjacency maps over a set of ids
SymmetricGraphs(ids) ==
    {[a \in ids |-> {b \in ids : {a, b} \in edges}] :
        edges \in SUBSET {e \in SUBSET ids : Cardinality(e) = 2}}

\* ---- computeAdjacency and generateRandomMap ----

computeAdjacencyCall ==
    /\ ret = <<>>
    /\ \E rs \in RegionLists({Null}) :
          /\ call' = [fn |-> "computeAdjacency", regions |-> rs]
          /\ ret' = <<computeAdjacency(rs)>>
    /\ UNCHANGED <<gameVars, cpVars>>

\* what voronoi.cellPolygon returns: a closed ring, or null (<<>>)
CellPool == {Append(poly, poly[1]) : poly \in PolygonPool} \cup {<<>>}

generateRandomMapCall ==
    /\ ret = <<>>
    /\ \E count \in 0 .. MaxRegionCount :
          \E cell \in [0 .. count - 1 -> CellPool] :
             \E nbrs \in {f \in [0 .. count - 1 -> SUBSET (0 .. count - 1)] :
                             \A i \in 0 .. count - 1 : i \notin f[i]} :
                /\ call' = [fn |-> "generateRandomMap", cell |-> cell, nbrs |-> nbrs]
                /\ ret' = <<generateRandomMap(count, MAP_WIDTH, MAP_HEIGHT, cell, nbrs).adjacency>>
    /\ UNCHANGED <<gameVars, cpVars>>

NextAdjacency == computeAdjacencyCall \/ generateRandomMapCall

SpecAdjacency == FnInit /\ [][NextAdjacency]_vars

\* C1: every adjacency graph computeAdjacency builds over regions with distinct
\* ids, and every one generateRandomMap builds, is symmetric and irreflexive.
C1_AdjacencySymmetricIrreflexive ==
    ret # <<>> => Symmetric(ret[1]) /\ Irreflexive(ret[1])

\* computeAdjacency found three regions of which two share a boundary
C1_Witness ==
    /\ ret # <<>>
    /\ call.fn = "computeAdjacency"
    /\ Len(call.regions) = 3
    /\ \E a \in DOMAIN ret[1] : ret[1][a] # {}
    /\ \E a \in DOMAIN ret[1] : ret[1][a] = {}

\* ---- findConflicts ----

findConflictsCall ==
    /\ ret = <<>>
    /\ \E rs \in ColouredLists({Null} \cup (0 .. COLORS - 1)) :
          \E adj \in SymmetricGraphs(RegionIds(rs)) :
             /\ call' = [fn |-> "findConflicts", regions |-> rs, adjacency |-> adj]
             /\ ret' = <<findConflicts(rs, adj)>>
    /\ UNCHANGED <<gameVars, cpVars>>

SpecConflicts == FnInit /\ [][findConflictsCall]_vars

\* regions a and b of rs are adjacent and have the same non-null colour
InConflict(rs, adj, a, b) ==
    /\ b \in adj[a]
    /\ regionMapGet(rs, a).color # Null
    /\ regionMapGet(rs, a).color = regionMapGet(rs, b).color

\* C2: over a symmetric, irreflexive graph findConflicts returns exactly the
\* unordered pairs of adjacent regions with the same non-null colour, each listed
\* once; the list is empty exactly when there is no such pair.
C2_ConflictsExact ==
    ret # <<>> =>
        LET rs == call.regions
            adj == call.adjacency
            found == ret[1]
        IN  /\ \A k \in DOMAIN found : InConflict(rs, adj, found[k][1], found[k][2])
            /\ \A a, b \in RegionIds(rs) :
                  InConflict(rs, adj, a, b) =>
                     Cardinality({k \in DOMAIN found :
                                     {found[k][1], found[k][2]} = {a, b}}) = 1
            /\ (found = <<>>) <=> ~\E a, b \in RegionIds(rs) : InConflict(rs, adj, a, b)

\* three regions of one colour, pairwise adjacent: three conflicts are listed
C2_Witness ==
    /\ ret # <<>>
    /\ Len(ret[1]) = 3

\* ---- estimateTargetCount ----

\* regions in an estimator call
MaxEstimateRegions == 5
\* the `iterations` argument
MaxIterations == 2

\* result[i] and result[j] swapped for i from the last index down to 1, where
\* draws[i] is j = Math.floor(Math.random() * (i + 1)); i and j count from 0
RECURSIVE shuffleFrom(_, _, _)
shuffleFrom(result, i, draws) ==
    IF i < 1 THEN result
    ELSE shuffleFrom([result EXCEPT ![i + 1] = result[draws[i] + 1],
                                    ![draws[i] + 1] = result[i + 1]],
                     i - 1, draws)

shuffleArray(array, draws) == shuffleFrom(array, Len(array) - 1, draws)

\* the outcomes of the random draws of one shuffle of n elements
ShuffleDraws(n) == {d \in [1 .. n - 1 -> 0 .. n - 1] : \A i \in 1 .. n - 1 : d[i] <= i}

\* a plausible slip: the lowest free colour is taken, the target colour included
greedyColorLowestFree(regionId, adj, targetIndex, colors) ==
    LET used == {colors[nb] : nb \in Neighbors(adj, regionId) \cap DOMAIN colors}
        available == {index \in 0 .. COLORS - 1 : index \notin used}
    IN  IF available = {} THEN targetIndex
        ELSE CHOOSE c \in available : \A d \in available : c <= d

\* the colour the greedy pass gives regionId: the lowest free colour other than
\* the target, the target when it is the only free colour or when none is free
greedyColor(regionId, adj, targetIndex, colors) ==
    LET used == {colors[nb] : nb \in Neighbors(adj, regionId) \cap DOMAIN colors}
        available == {index \in 0 .. COLORS - 1 : index \notin used}
        sorted == available \ {targetIndex}
    IN  IF available = {} THEN targetIndex
        ELSE IF sorted = {} THEN targetIndex
        ELSE CHOOSE c \in sorted : \A d \in sorted : c <= d

\* order.forEach of one iteration, from the k-th id on
RECURSIVE greedyColors(_, _, _, _, _)
greedyColors(order, k, adj, targetIndex, colors) ==
    IF k > Len(order) THEN colors
    ELSE greedyColors(order, k + 1, adj, targetIndex,
                      [rid \in DOMAIN colors \cup {order[k]} |->
                          IF rid = order[k]
                          THEN greedyColor(order[k], adj, targetIndex, colors)
                          ELSE colors[rid]])

\* targetCount of one iteration
targetCount(order, adj, targetIndex) ==
    LET colors == greedyColors(order, 1, adj, targetIndex, <<>>)
    IN  Cardinality({rid \in DOMAIN colors : colors[rid] = targetIndex})

\* a plausible slip: the closing Number.isFinite test is left out
estimateResultUnguarded(best) == best

\* Number.isFinite(best) ? best : 0
estimateResult(best) == IF best # Infinity THEN best ELSE 0

EstimateIds == <<1, 2, 10, 3, 4, 5, 6, 7>>

\* the graphs of the calls: every map over up to three ids (symmetric or not, with
\* or without loops) and the map without keys; for more ids the complete graph,
\* the cycle, the star and the graph without edges
EstimateGraphs(n) ==
    LET ids == {EstimateIds[i] : i \in 1 .. n}
        pos(a) == CHOOSE i \in 1 .. n : EstimateIds[i] = a
    IN  IF n <= 3 THEN [ids -> SUBSET ids] \cup {<<>>}
        ELSE { [a \in ids |-> ids \ {a}],
               [a \in ids |-> {b \in ids : (pos(a) - pos(b)) % n \in {1, n - 1}}],
               [a \in ids |-> IF pos(a) = 1 THEN ids \ {a} ELSE {EstimateIds[1]}],
               [a \in ids |-> {}] }

\* the call, up to the first test of the loop; an empty list returns 0 at once
estimateTargetCountCall ==
    /\ call = <<>>
    /\ ret = <<>>
    /\ \E n \in 0 .. MaxEstimateRegions :
          \E adj \in EstimateGraphs(n) :
             \E targetIndex \in 0 .. COLORS - 1 :
                \E iterations \in 0 .. MaxIterations :
                   /\ call' = [fn |-> "estimateTargetCount",
                               regions |-> [i \in 1 .. n |-> Region(EstimateIds[i], <<>>, Null)],
                               adjacency |-> adj,
                               targetIndex |-> targetIndex,
                               iterations |-> iterations,
                               i |-> 0,
                               best |-> Infinity]
                   /\ ret' = IF n = 0 THEN <<0>> ELSE <<>>
    /\ UNCHANGED <<gameVars, cpVars>>

\* one pass of the loop body
estimateTargetCountLoop ==
    /\ call # <<>>
    /\ ret = <<>>
    /\ call.i < call.iterations
    /\ \E draws \in ShuffleDraws(Len(call.regions)) :
          LET order == shuffleArray([k \in DOMAIN call.regions |-> call.regions[k].id], draws)
          IN  call' = [call EXCEPT
                         !.best = Min(call.best, targetCount(order, call.adjacency, call.targetIndex)),
                         !.i = call.i + 1]
    /\ UNCHANGED <<ret, gameVars, cpVars>>

\* the loop is left and the value returned
estimateTargetCountReturn ==
    /\ call # <<>>
    /\ ret = <<>>
    /\ call.i >= call.iterations
    /\ ret' = <<estimateResult(call.best)>>
    /\ UNCHANGED <<call, gameVars, cpVars>>

NextEstimate ==
    \/ estimateTargetCountCall
    \/ estimateTargetCountLoop
    \/ estimateTargetCountReturn

SpecEstimate == FnInit /\ [][NextEstimate]_vars

\* C4: whatever the region list, the adjacency graph, the target colour, the
\* number of iterations (zero included) and the shuffles, estimateTargetCount
\* returns an integer between 0 and the number of regions, and 0 for an empty list.
C4_EstimateBounded ==
    ret # <<>> =>
        /\ ret[1] \in 0 .. Len(call.regions)
        /\ (call.regions = <<>> => ret[1] = 0)

\* five pairwise adjacent regions: four take the four colours and the fifth falls
\* back to the target colour, in both iterations
C4_Witness ==
    /\ ret = <<2>>
    /\ Len(call.regions) = 5
    /\ call.iterations = 2
    /\ call.i = 2

\* ---- one greedy pass of estimateTargetCount, region by region ----

\* a shuffled order and an empty colors map, before order.forEach
greedyPassStart ==
    /\ call = <<>>
    /\ ret = <<>>
    /\ \E n \in 1 .. MaxEstimateRegions :
          \E adj \in EstimateGraphs(n) :
             \E targetIndex \in 0 .. COLORS - 1 :
                \E draws \in ShuffleDraws(n) :
                   call' = [fn |-> "greedyPass",
                            order |-> shuffleArray([i \in 1 .. n |-> EstimateIds[i]], draws),
                            adjacency |-> adj,
                            targetIndex |-> targetIndex,
                            k |-> 1,
                            colors |-> <<>>]
    /\ UNCHANGED <<ret, gameVars, cpVars>>

\* the callback of order.forEach for the k-th id of the order
greedyPassStep ==
    /\ call # <<>>
    /\ ret = <<>>
    /\ call.k <= Len(call.order)
    /\ LET regionId == call.order[call.k]
           color == greedyColor(regionId, call.adjacency, call.targetIndex, call.colors)
       IN  call' = [call EXCEPT
                      !.colors = [rid \in DOMAIN call.colors \cup {regionId} |->
                                     IF rid = regionId THEN color ELSE call.colors[rid]],
                      !.k = call.k + 1]
    /\ UNCHANGED <<ret, gameVars, cpVars>>

NextGreedy ==
    \/ greedyPassStart
    \/ greedyPassStep

SpecGreedy == FnInit /\ [][NextGreedy]_vars

\* the colours of the neighbours of the p-th region of the order that were
\* coloured before it
usedBefore(p) ==
    {call.colors[call.order[q]] :
        q \in {r \in 1 .. p - 1 : call.order[r] \in Neighbors(call.adjacency, call.order[p])}}

\* the colours other than the target that no earlier neighbour of the p-th region has
freeNonTarget(p) == (0 .. COLORS - 1) \ (usedBefore(p) \cup {call.targetIndex})

\* C16: in a greedy pass every region gets the lowest-indexed colour that is not
\* the target and not used by an already coloured neighbour; it gets the target
\* colour only when no such colour exists; and unless its earlier neighbours use
\* every colour, its colour differs from that of each of them.
C16_GreedyPass ==
    call # <<>> =>
        \A p \in 1 .. call.k - 1 :
            LET color == call.colors[call.order[p]]
            IN  /\ freeNonTarget(p) # {} =>
                       /\ color \in freeNonTarget(p)
                       /\ \A d \in freeNonTarget(p) : color <= d
                /\ freeNonTarget(p) = {} => color = call.targetIndex
                /\ usedBefore(p) # 0 .. COLORS - 1 => color \notin usedBefore(p)

\* a finished pass over five pairwise adjacent regions: three take the colours
\* other than the target, the fourth takes the target as the only free colour and
\* the fifth falls back to it although a neighbour has it
C16_Witness ==
    /\ call # <<>>
    /\ Len(call.order) = 5
    /\ call.k = 6
    /\ usedBefore(4) # 0 .. COLORS - 1
    /\ call.colors[call.order[4]] = call.targetIndex
    /\ usedBefore(5) = 0 .. COLORS - 1
    /\ call.colors[call.order[5]] = call.targetIndex

\* ---- createPoints ----

\* the `count` argument
MaxPointCount == 2

distance(a, b) == hypot(a.x - b.x, a.y - b.y)

\* width / Math.sqrt(count) / 2.2, in tenths
minDist(count, width) == (width * 100000) \div (22 * Sqrt(count * 1000000))

\* the candidates randomRange can draw in the inset rectangle: its two far
\* corners, and two points close together in the middle
CandidatePoints ==
    { Pt((MAP_WIDTH * 5) \div 100, (MAP_HEIGHT * 5) \div 100),
      Pt((MAP_WIDTH * 95) \div 100, (MAP_HEIGHT * 95) \div 100),
      Pt(MAP_WIDTH \div 2, MAP_HEIGHT \div 2),
      Pt(MAP_WIDTH \div 2 + 10, MAP_HEIGHT \div 2) }

\* the points randomRange can draw in the whole rectangle
FillPoints == {Pt(0, 0), Pt(MAP_WIDTH \div 2, MAP_HEIGHT \div 2)}

\* a plausible slip: the attempt budget is not tested
rejectionContinuesNoBudget(count, points, attempts) == Len(points) < count

\* the test of the first while loop
rejectionContinues(count, points, attempts) ==
    Len(points) < count /\ attempts < count * 120

createPointsCall ==
    /\ cpPc = "idle"
    /\ \E count \in 1 .. MaxPointCount : cpCount' = count
    /\ cpPoints' = <<>>
    /\ cpAttempts' = 0
    /\ cpPc' = "reject"
    /\ UNCHANGED <<gameVars, fnVars>>

\* one pass of the first loop: a candidate is drawn and kept if it is farther
\* than minDist from every point kept so far
createPointsAttempt ==
    /\ cpPc = "reject"
    /\ rejectionContinues(cpCount, cpPoints, cpAttempts)
    /\ \E point \in CandidatePoints :
          LET ok == \A k \in DOMAIN cpPoints :
                        distance(cpPoints[k], point) > minDist(cpCount, MAP_WIDTH)
          IN  cpPoints' = IF ok THEN Append(cpPoints, point) ELSE cpPoints
    /\ cpAttempts' = cpAttempts + 1
    /\ UNCHANGED <<cpCount, cpPc, gameVars, fnVars>>

\* the first loop is left
createPointsFillStart ==
    /\ cpPc = "reject"
    /\ ~rejectionContinues(cpCount, cpPoints, cpAttempts)
    /\ cpPc' = "fill"
    /\ UNCHANGED <<cpCount, cpPoints, cpAttempts, gameVars, fnVars>>

\* one pass of the second loop
createPointsFill ==
    /\ cpPc = "fill"
    /\ Len(cpPoints) < cpCount
    /\ \E point \in FillPoints : cpPoints' = Append(cpPoints, point)
    /\ UNCHANGED <<cpCount, cpAttempts, cpPc, gameVars, fnVars>>

createPointsReturn ==
    /\ cpPc = "fill"
    /\ Len(cpPoints) >= cpCount
    /\ cpPc' = "done"
    /\ UNCHANGED <<cpCount, cpPoints, cpAttempts, gameVars, fnVars>>

NextPoints ==
    \/ createPointsCall
    \/ createPointsAttempt
    \/ createPointsFillStart
    \/ createPointsFill
    \/ createPointsReturn

SpecPoints == FnInit /\ [][NextPoints]_vars

\* steps left at most: attempts of the budget, points to add, phases to leave
cpRemaining ==
    (120 * cpCount - cpAttempts) + (cpCount - Len(cpPoints))
        + (CASE cpPc = "reject" -> 2 [] cpPc = "fill" -> 1 [] OTHER -> 0)

\* C5: createPoints makes at most 120 * N attempts, every step brings it
\* nearer to its return, it returns exactly N points, and the points accepted in
\* the rejection phase are pairwise farther apart than width / sqrt(N) / 2.2.
C5_CreatePointsBounded ==
    [][cpPc # "idle" =>
          /\ cpAttempts' <= 120 * cpCount'
          /\ cpRemaining' < cpRemaining
          /\ cpRemaining' >= 0
          /\ (cpPc' = "done" => Len(cpPoints') = cpCount')
          /\ (cpPc = "reject" =>
                \A i, j \in DOMAIN cpPoints' :
                   i # j => distance(cpPoints'[i], cpPoints'[j]) > minDist(cpCount', MAP_WIDTH))]_vars

\* the budget of two points ran out with one point accepted, and the second
\* point was filled in
C5_Witness ==
    /\ cpPc = "done"
    /\ cpCount = 2
    /\ cpAttempts = 240
    /\ Len(cpPoints) = 2

\* ---- segmentOverlapLength ----

SegmentPoints == {Pt(0, 0), Pt(10, 0), Pt(5, 0), Pt(15, 0), Pt(0, 10), Pt(10, 2)}

segmentOverlapLengthCall ==
    /\ ret = <<>>
    /\ \E a1, a2, b1, b2 \in SegmentPoints :
          /\ call' = [fn |-> "segmentOverlapLength", a1 |-> a1, a2 |-> a2, b1 |-> b1, b2 |-> b2]
          /\ ret' = <<segmentOverlapLength(a1, a2, b1, b2)>>
    /\ UNCHANGED <<gameVars, cpVars>>

SpecOverlap == FnInit /\ [][segmentOverlapLengthCall]_vars

\* C6: the overlap length of two segments does not depend on which of the two
\* is given first.
C6_OverlapSymmetric ==
    ret # <<>> =>
        ret[1] = segmentOverlapLength(call.b1, call.b2, call.a1, call.a2)

\* ---- the exact colouring solver ----

\* regions in a solver call
MaxSolverRegions == 4
\* the `paletteSize` argument
MaxPaletteSize == 3

SolverIds == <<1, 2, 10, 3, 4, 5>>

Infeasible == [ok |-> FALSE, colors |-> <<>>]

\* number of distinct colours among the coloured neighbours of a
saturation(graph, colors, a) ==
    Cardinality({colors[nb] : nb \in Neighbors(graph, a) \cap DOMAIN colors})

\* the uncoloured region of highest saturation, then highest degree, then lowest id
selectRegion(ids, graph, colors) ==
    LET open == ids \ DOMAIN colors
        before(a, b) ==
            \/ saturation(graph, colors, a) > saturation(graph, colors, b)
            \/ /\ saturation(graph, colors, a) = saturation(graph, colors, b)
               /\ \/ Cardinality(Neighbors(graph, a)) > Cardinality(Neighbors(graph, b))
                  \/ /\ Cardinality(Neighbors(graph, a)) = Cardinality(Neighbors(graph, b))
                     /\ IdLess(a, b)
    IN  CHOOSE a \in open : \A b \in open \ {a} : before(a, b)

\* a plausible slip: the colours of the neighbours are not excluded
colorAllowedAlways(graph, colors, a, c) == TRUE

\* no coloured neighbour of a has colour c
colorAllowed(graph, colors, a, c) ==
    \A nb \in Neighbors(graph, a) \cap DOMAIN colors : colors[nb] # c

RECURSIVE solveFrom(_, _, _, _)
RECURSIVE tryColors(_, _, _, _, _, _)

\* the result of a branch, or the next colour when the branch failed
tryNext(ids, graph, paletteSize, colors, a, c, result) ==
    IF result.ok THEN result
    ELSE tryColors(ids, graph, paletteSize, colors, a, c + 1)

\* the colours c, c + 1, ... tried on region a in ascending order
tryColors(ids, graph, paletteSize, colors, a, c) ==
    IF c >= paletteSize THEN Infeasible
    ELSE IF ~colorAllowed(graph, colors, a, c)
    THEN tryColors(ids, graph, paletteSize, colors, a, c + 1)
    ELSE tryNext(ids, graph, paletteSize, colors, a, c,
                 solveFrom(ids, graph, paletteSize,
                           [rid \in DOMAIN colors \cup {a} |->
                               IF rid = a THEN c ELSE colors[rid]]))

\* success once every region is coloured, else the search below the selected region
solveFrom(ids, graph, paletteSize, colors) ==
    IF DOMAIN colors = ids THEN [ok |-> TRUE, colors |-> colors]
    ELSE tryColors(ids, graph, paletteSize, colors, selectRegion(ids, graph, colors), 0)

solveExactColoring(rs, graph, paletteSize) ==
    solveFrom(RegionIds(rs), graph, paletteSize, <<>>)

\* five regions, each adjacent to its two neighbours on the cycle
FiveCycle ==
    [a \in {SolverIds[i] : i \in 1 .. 5} |->
        {SolverIds[j] : j \in {k \in 1 .. 5 :
                                 \E i \in 1 .. 5 : SolverIds[i] = a /\ (i - k) % 5 \in {1, 4}}}]

\* five pairwise adjacent regions: not planar
FiveClique ==
    [a \in {SolverIds[i] : i \in 1 .. 5} |-> {SolverIds[i] : i \in 1 .. 5} \ {a}]

\* every graph over up to MaxSolverRegions regions, the 5-cycle and the 5-clique
SolverGraphs ==
    UNION {SymmetricGraphs({SolverIds[i] : i \in 1 .. n}) : n \in 0 .. MaxSolverRegions}
        \cup {FiveCycle, FiveClique}

solveExactColoringCall ==
    /\ ret = <<>>
    /\ \E graph \in SolverGraphs :
          \E paletteSize \in 0 .. MaxPaletteSize :
             /\ call' = [fn |-> "solveExactColoring", graph |-> graph, paletteSize |-> paletteSize]
             /\ ret' = <<solveExactColoring(
                            [i \in 1 .. Cardinality(DOMAIN graph) |-> Region(SolverIds[i], <<>>, Null)],
                            graph, paletteSize)>>
    /\ UNCHANGED <<gameVars, cpVars>>

SpecSolver == FnInit /\ [][solveExactColoringCall]_vars

\* colors gives every region of the graph a colour of the palette, and no two
\* adjacent regions the same
ProperColoring(graph, paletteSize, colors) ==
    /\ DOMAIN colors = DOMAIN graph
    /\ \A a \in DOMAIN graph :
          /\ colors[a] \in 0 .. paletteSize - 1
          /\ \A b \in graph[a] : colors[a] # colors[b]

\* C3: the solver returns a complete assignment without two adjacent regions of
\* one colour whenever the graph, planar or not, has one within the palette, and
\* reports infeasibility otherwise; the 5-cycle is infeasible with two colours and
\* solved with three.
C3_SolverExact ==
    ret # <<>> =>
        /\ ret[1].ok => ProperColoring(call.graph, call.paletteSize, ret[1].colors)
        /\ ~ret[1].ok =>
              ~\E colors \in [DOMAIN call.graph -> 0 .. call.paletteSize - 1] :
                  ProperColoring(call.graph, call.paletteSize, colors)
        /\ (call.graph = FiveCycle /\ call.paletteSize = 2 => ~ret[1].ok)
        /\ (call.graph = FiveCycle /\ call.paletteSize = 3 => ret[1].ok)

\* the 5-cycle was solved with three colours
C3_Witness ==
    /\ ret # <<>>
    /\ call.graph = FiveCycle
    /\ call.paletteSize = 3
    /\ ret[1].ok
    /\ Cardinality({ret[1].colors[a] : a \in DOMAIN FiveCycle}) = 3

----------------------------------------------------------------------------
\* Checking, conflicts and history while playing (Spec)

\* some two adjacent regions have the same non-null colour
SomeConflict(rs, adj) ==
    \E a, b \in RegionIds(rs) \cap DOMAIN adj : InConflict(rs, adj, a, b)

AllFilled(rs) == \A i \in DOMAIN rs : rs[i].color # Null

C18_ConflictsNotStale ==
    \A k \in DOMAIN conflicts :
        /\ conflicts[k][1] \in RegionIds(regions) \cap DOMAIN adjacency
        /\ conflicts[k][2] \in RegionIds(regions)
        /\ InConflict(regions, adjacency, conflicts[k][1], conflicts[k][2])

\* the entries of the history that recolour region rid
entriesOf(rid) == {k \in DOMAIN history : history[k].regionId = rid}

\* C19: every history entry names a region that exists, a region without a
\* history entry is uncoloured, and every other region has the nextColor of its
\* most recent history entry.
C19_HistoryMatchesColors ==
    /\ \A k \in DOMAIN history : history[k].regionId \in RegionIds(regions)
    /\ \A i \in DOMAIN regions :
          IF entriesOf(regions[i].id) = {}
          THEN regions[i].color = Null
          ELSE regions[i].color =
                  history[CHOOSE k \in entriesOf(regions[i].id) :
                             \A j \in entriesOf(regions[i].id) : j <= k].nextColor

----------------------------------------------------------------------------
\* Repeated map generation

\* sites on one horizontal line of the inset rectangle, the midpoints between
\* them on the lattice
LinePoints == {Pt(x, MAP_HEIGHT \div 2) : x \in {100, 300, 500, 700, 800}}

\* the point lists createPoints can return for these draws of Math.random
CreatedPoints(count) ==
    {q \in [1 .. count -> LinePoints] : \A i, j \in 1 .. count : i # j => q[i] # q[j]}

\* the x bounds of the Voronoi cell of site index (counted from 0): half way to
\* the nearest site on either side, or the side of the rectangle
cellLeft(points, index) ==
    LET lower == {points[k].x : k \in DOMAIN points} \cap (0 .. points[index + 1].x - 1)
    IN  IF lower = {} THEN 0
        ELSE (points[index + 1].x + (CHOOSE x \in lower : \A y \in lower : y <= x)) \div 2

cellRight(points, index, width) ==
    LET upper == {points[k].x : k \in DOMAIN points} \ (0 .. points[index + 1].x)
    IN  IF upper = {} THEN width
        ELSE (points[index + 1].x + (CHOOSE x \in upper : \A y \in upper : x <= y)) \div 2

\* voronoi.cellPolygon(index) for sites on a horizontal line: a closed ring
cellPolygonOf(points, index, width, height) ==
    <<Pt(cellLeft(points, index), 0), Pt(cellRight(points, index, width), 0),
      Pt(cellRight(points, index, width), height), Pt(cellLeft(points, index), height),
      Pt(cellLeft(points, index), 0)>>

\* delaunay.neighbors(index) for sites on a line: the next site on either side
neighborsOf(points, index) ==
    {j \in 0 .. Len(points) - 1 :
        /\ j # index
        /\ ~\E k \in DOMAIN points :
              \/ points[j + 1].x < points[k].x /\ points[k].x < points[index + 1].x
              \/ points[index + 1].x < points[k].x /\ points[k].x < points[j + 1].x}

\* generateRandomMap once createPoints has returned points
generateRandomMapFrom(points, width, height) ==
    generateRandomMap(Len(points), width, height,
                      [i \in 0 .. Len(points) - 1 |-> cellPolygonOf(points, i, width, height)],
                      [i \in 0 .. Len(points) - 1 |-> neighborsOf(points, i)])

\* one run of generateRandomMap; the second run gets the arguments of the first
generateRandomMapRun ==
    /\ Len(ret) < 2
    /\ \E count \in 1 .. MaxRegionCount :
          /\ IF call = <<>> THEN TRUE ELSE call.regionCount = count
          /\ call' = [fn |-> "generateRandomMap", regionCount |-> count,
                      width |-> MAP_WIDTH, height |-> MAP_HEIGHT]
          /\ \E points \in CreatedPoints(count) :
                ret' = Append(ret, generateRandomMapFrom(points, MAP_WIDTH, MAP_HEIGHT))
    /\ UNCHANGED <<gameVars, cpVars>>

SpecRepeat == FnInit /\ [][generateRandomMapRun]_vars

\* C12: two runs of the map generation with the same region count, width and
\* height give the same region polygons and the same adjacency graph.
C12_GenerationDeterministic ==
    Len(ret) = 2 => ret[1] = ret[2]

----------------------------------------------------------------------------
\* Calls of the snap engine

\* points of a fitted stroke
MaxSnapPoints == 3

\* the corners of the square region, and points outside and beside it
SnapPoints == {Pt(0, 0), Pt(30, 0), Pt(30, 30), Pt(0, 30), Pt(50, 15), Pt(15, 50)}

\* no region, or one square region
SnapRegionLists ==
    {<<>>, <<Region(1, <<Pt(0, 0), Pt(30, 0), Pt(30, 30), Pt(0, 30)>>, Null)>>}

\* the locals of buildSnappedPolygon, given the graph and the snapped points
snapLocalsOf(snappedPoints, built, threshold) ==
    [snappedPoints |-> snappedPoints,
     nodes |-> built.nodes,
     graph |-> built.graph,
     startNode |-> findNearestNode(built.nodes, snappedPoints[1], threshold),
     endNode |-> findNearestNode(built.nodes, snappedPoints[Len(snappedPoints)], threshold),
     path |-> pathBetween(built.graph,
                  findNearestNode(built.nodes, snappedPoints[1], threshold),
                  findNearestNode(built.nodes, snappedPoints[Len(snappedPoints)], threshold))]

snapLocalsFrom(snappedPoints, edges, threshold) ==
    snapLocalsOf(snappedPoints,
        buildGraphFromEdges(edges, snappedPoints[1], snappedPoints[Len(snappedPoints)],
                            threshold),
        threshold)

\* snappedPoints, nodes, graph, startNode, endNode and path of buildSnappedPolygon
snapLocals(points, rs, threshold) ==
    snapLocalsFrom(snapPointsToEdges(points, buildEdgeGraph(rs, threshold), threshold),
                   buildEdgeGraph(rs, threshold), threshold)

buildSnappedPolygonCall ==
    /\ ret = <<>>
    /\ \E n \in 2 .. MaxSnapPoints :
          \E points \in [1 .. n -> SnapPoints] :
             \E rs \in SnapRegionLists :
                /\ call' = [fn |-> "buildSnappedPolygon", points |-> points, regions |-> rs,
                            locals |-> snapLocals(points, rs, snapThreshold)]
                /\ ret' = <<buildSnappedPolygon(points, rs, snapThreshold)>>
    /\ UNCHANGED <<gameVars, cpVars>>

SpecSnap == FnInit /\ [][buildSnappedPolygonCall]_vars

\* nodes a and b are joined by an edge of the graph
GraphEdge(graph, a, b) ==
    a \in DOMAIN graph.weights /\ b \in DOMAIN graph.weights[a]

\* the points of the node ids of path form a walk along edges of the graph
NodeWalk(graph, path) ==
    \A i \in 1 .. Len(path) - 1 : GraphEdge(graph, path[i], path[i + 1])

\* C13: when a boundary path of more than one node is found, the polygon is the
\* snapped drawn path followed by the boundary path walked from the node matched
\* to the drawn end back to the node matched to the drawn start, so the vertices
\* after the stroke's last point continue from the end node along graph edges.
C13_PolygonFollowsBoundaryBack ==
    (ret # <<>> /\ Len(call.locals.path) > 1) =>
        /\ call.locals.path[1] = call.locals.endNode
        /\ ret[1].polygon =
              call.locals.snappedPoints
                 \o [i \in 1 .. Len(call.locals.path) - 1 |->
                        call.locals.nodes[call.locals.path[i + 1]]]
        /\ \E walk \in [1 .. Len(ret[1].polygon) - Len(call.locals.snappedPoints) + 1
                          -> DOMAIN call.locals.nodes] :
              /\ walk[1] = call.locals.endNode
              /\ \A i \in 2 .. Len(walk) :
                    call.locals.nodes[walk[i]] =
                       ret[1].polygon[Len(call.locals.snappedPoints) + i - 1]
              /\ NodeWalk(call.locals.graph, walk)

\* ---- shortestPath ----

\* nodes of a graph
MaxPathNodes == 4

\* the weight of an edge, when there is one
PathWeights == {0, 20, 50}

\* every undirected graph over the nodes 1 .. n, as buildGraphFromEdges stores it
PathGraphs(n) ==
    LET pairs == {e \in SUBSET (1 .. n) : Cardinality(e) = 2}
    IN  {[keys |-> [k \in 1 .. n |-> k],
          weights |-> [a \in 1 .. n |->
                         [b \in {c \in 1 .. n : c # a /\ w[{a, c}] >= 0} |-> w[{a, b}]]]] :
            w \in [pairs -> PathWeights \cup {-1}]}

shortestPathCall ==
    /\ ret = <<>>
    /\ \E n \in 1 .. MaxPathNodes :
          \E graph \in PathGraphs(n) :
             \E startId, endId \in 1 .. n :
                /\ call' = [fn |-> "shortestPath", graph |-> graph,
                            startId |-> startId, endId |-> endId]
                /\ ret' = <<shortestPath(graph, startId, endId)>>
    /\ UNCHANGED <<gameVars, cpVars>>

SpecPath == FnInit /\ [][shortestPathCall]_vars

\* the summed weight of a walk
RECURSIVE WalkWeight(_, _)
WalkWeight(graph, path) ==
    IF Len(path) < 2 THEN 0
    ELSE graph.weights[path[1]][path[2]] + WalkWeight(graph, Tail(path))

\* the paths without repeated nodes from node a to node b
SimplePaths(graph, a, b) ==
    {q \in InjectiveSeqs(DOMAIN graph.weights, Len(graph.keys)) :
        /\ Len(q) > 0
        /\ q[1] = a
        /\ q[Len(q)] = b
        /\ NodeWalk(graph, q)}

\* C14: shortestPath returns null exactly when the end node cannot be reached
\* from the start node, and otherwise a node sequence from the end node to the
\* start node that walks along edges of the graph and whose summed weight is the
\* least of all paths between the two nodes.
C14_ShortestPathMinimal ==
    ret # <<>> =>
        LET paths == SimplePaths(call.graph, call.startId, call.endId)
            path == ret[1]
        IN  /\ (path = <<>>) <=> (paths = {})
            /\ path # <<>> =>
                  /\ path[1] = call.endId
                  /\ path[Len(path)] = call.startId
                  /\ NodeWalk(call.graph, path)
                  /\ \A q \in paths : WalkWeight(call.graph, path) <= WalkWeight(call.graph, q)

\* the two ends share an edge, and a way round over two other nodes is shorter
C14_Witness ==
    /\ ret # <<>>
    /\ Len(ret[1]) = 4
    /\ GraphEdge(call.graph, call.startId, call.endId)

\* ---- fitToMaxPoints ----

\* points of a path to fit
MaxFitPoints == 40

fitToMaxPointsCall ==
    /\ ret = <<>>
    /\ \E n \in 0 .. MaxFitPoints :
          \E target \in 2 .. TARGET_SIMPLIFY_POINTS :
             /\ call' = [fn |-> "fitToMaxPoints", points |-> [k \in 1 .. n |-> Pt(k, 0)],
                         targetCount |-> target]
             /\ ret' = <<fitToMaxPoints([k \in 1 .. n |-> Pt(k, 0)], target)>>
    /\ UNCHANGED <<gameVars, cpVars>>

SpecFit == FnInit /\ [][fitToMaxPointsCall]_vars

\* C15: for a target count of at least 2, fitToMaxPoints returns at most
\* targetCount vertices, the first and the last of them the first and last input
\* points, and the input itself when it has at most targetCount vertices.
C15_FitWithinTarget ==
    ret # <<>> =>
        /\ Len(ret[1]) <= call.targetCount
        /\ call.points # <<>> =>
              /\ ret[1] # <<>>
              /\ ret[1][1] = call.points[1]
              /\ ret[1][Len(ret[1])] = call.points[Len(call.points)]
        /\ Len(call.points) <= call.targetCount => ret[1] = call.points

\* ---- simplifyPath ----

\* points of a path to simplify
MaxSimplifyPoints == 4

\* points on a line, one 2 units and one 10 units off it
SimplifyPoints == {Pt(0, 0), Pt(10, 0), Pt(20, 0), Pt(10, 2), Pt(10, 10)}

\* the tolerance handlePointerUp passes, in tenths
simplifyTolerance == 30

simplifyPathCall ==
    /\ ret = <<>>
    /\ \E n \in 2 .. MaxSimplifyPoints :
          \E points \in [1 .. n -> SimplifyPoints] :
             /\ call' = [fn |-> "simplifyPath", points |-> points]
             /\ ret' = <<simplifyPath(points, simplifyTolerance)>>
    /\ UNCHANGED <<gameVars, cpVars>>

SpecSimplify == FnInit /\ [][simplifyPathCall]_vars

\* sub picks points of full in their order, the first and the last among them
EndedSubsequence(sub, full) ==
    \E f \in [1 .. Len(sub) -> 1 .. Len(full)] :
        /\ \A i \in 1 .. Len(sub) - 1 : f[i] < f[i + 1]
        /\ \A i \in 1 .. Len(sub) : full[f[i]] = sub[i]
        /\ f[1] = 1
        /\ f[Len(sub)] = Len(full)

\* C17: simplifyPath returns an order-preserving subsequence of its input that
\* begins with the first and ends with the last point; it is the two endpoints
\* when no interior point is farther than the tolerance from the chord, and
\* otherwise the path is split at an interior point, so that both recursive calls
\* get strictly shorter paths.
C17_SimplifyKeepsEnds ==
    ret # <<>> =>
        LET points == call.points
            within == \A i \in 2 .. Len(points) - 1 :
                         pointLineDistance(points[i], points[1], points[Len(points)])
                            <= simplifyTolerance
        IN  /\ Len(ret[1]) >= 2
            /\ EndedSubsequence(ret[1], points)
            /\ within => ret[1] = <<points[1], points[Len(points)]>>
            /\ ~within => simplifyScan(points, 2, 0, 0)[1] \in 2 .. Len(points) - 1

\* a path of four points split twice: both interior points are kept
C17_Witness ==
    /\ ret # <<>>
    /\ Len(call.points) = 4
    /\ ret[1] = call.points
    /\ call.points[2] # call.points[3]


\* ---- computeAdjacency on a list and on a reordering of it ----

\* a square, its right-hand neighbour, and a square that overlaps half of the
\* right-hand side of the first one, its vertices listed in the other sense
OrderPolygonPool ==
    { <<Pt(0, 0), Pt(20, 0), Pt(20, 20), Pt(0, 20)>>,
      <<Pt(20, 0), Pt(40, 0), Pt(40, 20), Pt(20, 20)>>,
      <<Pt(20, 10), Pt(20, 30), Pt(40, 30), Pt(40, 10)>> }

OrderRegionLists ==
    UNION {{[i \in DOMAIN ids |-> Region(ids[i], polys[i], Null)] :
               polys \in [DOMAIN ids -> OrderPolygonPool]} :
           ids \in InjectiveSeqs(IdPool, MaxFnRegions)}

\* the permutations of the indices 1 .. n
IndexOrders(n) ==
    {p \in [1 .. n -> 1 .. n] : \A i, j \in 1 .. n : i # j => p[i] # p[j]}

\* computeAdjacency applied to a list, and to the same regions in another order
computeAdjacencyOrderCall ==
    /\ ret = <<>>
    /\ \E rs \in OrderRegionLists :
          \E p \in IndexOrders(Len(rs)) :
             LET permuted == [i \in DOMAIN rs |-> rs[p[i]]]
             IN  /\ call' = [fn |-> "computeAdjacency", regions |-> rs, permuted |-> permuted]
                 /\ ret' = <<computeAdjacency(rs), computeAdjacency(permuted)>>
    /\ UNCHANGED <<gameVars, cpVars>>

SpecOrder == FnInit /\ [][computeAdjacencyOrderCall]_vars

\* C20: computeAdjacency makes the same pairs of ids adjacent for a list of
\* regions and for every permutation of that list.
C20_AdjacencyOrderIndependent ==
    ret # <<>> => ret[1] = ret[2]

====
